---- MODULE Spec2Model ----
(***************************************************************************)
(* HireLens: the request throttle (src/utils/rateLimiter.ts) and the way   *)
(* the application's features reach the external model                      *)
(* (src/services/geminiService.ts).                                         *)
(*                                                                          *)
(* Time is in milliseconds.  One action is one run of JavaScript between    *)
(* two suspension points (await): a call of execute(), the resumption of a  *)
(* draining loop after a sleep, or the settling of a task's work.  A timer  *)
(* fires at or after its due time, never before.                            *)
(***************************************************************************)
EXTENDS Integers, Sequences, FiniteSets, TLC

VARIABLES
  now,              \* Date.now()
  queue,            \* RateLimiter.queue: task ids, head first
  processing,       \* RateLimiter.processing
  lastRequestTime,  \* RateLimiter.lastRequestTime
  requestTimes,     \* RateLimiter.requestTimes
  loops,            \* suspended activations of processQueue()
  promise,          \* promise[i]: the promise returned by the i-th execute()
  calls,            \* log of the invocations of work functions, in order
  inflight,         \* tasks whose work is executing
  waits,            \* log of the rate-limit waits: the oldestRequest of each
  direct,           \* model requests issued by the features themselves
  arg,              \* the argument of the function under evaluation
  ret,              \* <<its result>>, <<>> before the evaluation
  ats,              \* the activation of analyzeResumeAgainstJob()
  store,            \* localStorage, by key
  saved,            \* log of the entries handed to saveScoreHistory()
  matcher,          \* the activation of matchResumeToWebJobs()
  compare           \* the activation of compareResumeVersions()

aux == <<arg, ret, ats, store, saved, matcher, compare>>

vars == <<now, queue, processing, lastRequestTime, requestTimes, loops,
          promise, calls, inflight, waits, direct, arg, ret, ats, store,
          saved, matcher, compare>>

----------------------------------------------------------------------------
(* Program constants *)

minDelay == 100
requestsPerMinute == 12
OneMinute == 60000
WaitBuffer == 100
DefaultRetryDelay == 12000
HistoryLimit == 100
LeaderboardLimit == 100
JobLimit == 8
RequestGap == 5000
MaxRetries == 3

(* Bounds of the model *)

StartTime == 100000     \* the clock at construction (far from the epoch)
Step == 50              \* free advance of the clock in Spec
MaxTime == 100400       \* the clock stops here in Spec
BurstStep == 20000      \* free advance of the clock in BurstSpec
BurstMaxTime == 161500  \* the clock stops here in BurstSpec
MaxTasks == 3           \* execute() calls in Spec
BurstTasks == 14        \* execute() calls in BurstSpec
BurstWindow == 1000     \* BurstSpec submits within this long of the start
MaxDirect == 2          \* feature requests in AppSpec
LiveTasks == 3          \* execute() calls in LiveSpec
LiveMaxTime == 100300   \* free steps of the clock end here in LiveSpec
MaxHint == 7            \* retry hints run from 0 to this many seconds
MaxAge == 61            \* posting ages run from -2 to this many days
MaxSaves == 102         \* score-history entries saved in one behaviour
MaxJobs == 3            \* jobs the search finds, at most, in MatchSpec
MaxFound == 9           \* jobs the search finds in BatchSpec
MaxResumes == 3         \* resume versions handed to compareResumeVersions()
MaxScore == 30          \* scores submitted to the leaderboard: 0 to this

----------------------------------------------------------------------------
(* Errors a work function can fail with.  message is the set of the        *)
(* substrings the code looks for that the message contains, errorMessage   *)
(* the same for error.error.message; retryInfo, retryIn and errorRetryIn   *)
(* are the seconds of the structured hint and of the 'retry in Ns' text of *)
(* message and of error.error.message, -1 when absent.                     *)

NoError ==
  [code |-> 0, status |-> "", message |-> {}, errorCode |-> 0,
   errorMessage |-> {}, retryInfo |-> -1, retryIn |-> -1,
   errorRetryIn |-> -1]

Err ==
  [ok          |-> NoError,
   code429     |-> [NoError EXCEPT !.code = 429],
   exhausted   |-> [NoError EXCEPT !.status = "RESOURCE_EXHAUSTED"],
   quotaMsg    |-> [NoError EXCEPT !.message = {"quota"}],
   nested429   |-> [NoError EXCEPT !.errorCode = 429, !.retryInfo = 7],
   retrySoon   |-> [NoError EXCEPT !.code = 429, !.retryIn = 1],
   network     |-> [NoError EXCEPT !.message = {"network"}],
   apiKey      |-> [NoError EXCEPT !.message = {"API key not valid"}]]

Outcomes == {"ok", "code429", "exhausted", "quotaMsg", "nested429", "network"}
BurstOutcomes == {"ok"}
LiveOutcomes == {"ok", "code429", "network"}
AtsOutcomes == {"ok", "code429", "exhausted", "nested429", "network", "apiKey"}
MatchOutcomes == {"ok", "code429", "exhausted", "quotaMsg", "network"}
BatchOutcomes == {"ok", "retrySoon"}

isRateLimitError(error) ==
  \/ error.code = 429
  \/ error.status = "RESOURCE_EXHAUSTED"
  \/ "quota" \in error.message
  \/ "429" \in error.message
  \/ error.errorCode = 429

Null == -1

\* the 'retry in Ns' text looked at before the structured field
extractRetryDelayTextFirst(error) ==
  IF error.retryIn # -1 THEN error.retryIn * 1000
  ELSE IF error.retryInfo # -1 THEN error.retryInfo * 1000
  ELSE Null

\* the hint in milliseconds, Null when the error carries none
extractRetryDelay(error) ==
  IF error.retryInfo # -1 THEN error.retryInfo * 1000
  ELSE IF error.retryIn # -1 THEN error.retryIn * 1000
  ELSE Null

\* extractRetryDelay(error) || 12000
RetryDelay(error) ==
  IF extractRetryDelay(error) \in {Null, 0} THEN DefaultRetryDelay
  ELSE extractRetryDelay(error)

----------------------------------------------------------------------------
(* The closure execute() pushes on the queue: it awaits the work, resolves *)
(* or rejects the caller's promise, and itself completes normally.         *)

\* the closure without its try/catch: the error escapes to processQueue
WrapperNoCatch(out) ==
  [settle |-> IF out = "ok" THEN "resolved" ELSE "none",
   value  |-> out,
   thrown |-> out # "ok"]

\* the closure resolving the promise in its catch as well
WrapperAlwaysResolves(out) ==
  [settle |-> "resolved", value |-> out, thrown |-> FALSE]

Wrapper(out) ==
  [settle |-> IF out = "ok" THEN "resolved" ELSE "rejected",
   value  |-> out,
   thrown |-> FALSE]

Pending == [state |-> "pending", value |-> "none", n |-> 0]

\* resolve()/reject() on a promise: only the first call settles it
SettlePromise(p, w) ==
  IF w.settle = "none" THEN p
  ELSE IF p.state = "pending"
  THEN [state |-> w.settle, value |-> w.value, n |-> p.n + 1]
  ELSE [p EXCEPT !.n = p.n + 1]

----------------------------------------------------------------------------
(* processQueue(), as resumable pieces.  m is the limiter's state          *)
(* [queue, processing, lastRequestTime, requestTimes]; the result adds     *)
(* loop (the suspended continuation, if any), admit (the task whose work   *)
(* was invoked, 0 if none) and waited (the oldestRequest it sleeps for).   *)

\* the guard without the processing flag
BusyIgnoresFlag(proc, q) == Len(q) = 0

Busy(proc, q) == proc \/ Len(q) = 0

FilterTimes(times, oneMinuteAgo) ==
  SelectSeq(times, LAMBDA time : time > oneMinuteAgo)

\* the limit test off by one, either way
AtLimitLate(times) == Len(times) > requestsPerMinute
AtLimitEarly(times) == Len(times) >= requestsPerMinute - 1

AtLimit(times) == Len(times) >= requestsPerMinute

\* the wait without its buffer
WaitTimeNoBuffer(t, oldestRequest) == OneMinute - (t - oldestRequest)

WaitTime(t, oldestRequest) == OneMinute - (t - oldestRequest) + WaitBuffer

\* pop() in place of shift()
ShiftLast(q) == [request |-> q[Len(q)], rest |-> SubSeq(q, 1, Len(q) - 1)]

Shift(q) == [request |-> Head(q), rest |-> Tail(q)]

\* the spacing test inverted
SpacingInverted(timeSinceLastRequest) == timeSinceLastRequest > minDelay

NeedsSpacing(timeSinceLastRequest) == timeSinceLastRequest < minDelay

Suspended(pc, wake, request, oneMinuteAgo) ==
  [pc |-> pc, wake |-> wake, request |-> request, oneMinuteAgo |-> oneMinuteAgo]

Result(m, loop, admit, waited) ==
  [queue |-> m.queue, processing |-> m.processing,
   lastRequestTime |-> m.lastRequestTime, requestTimes |-> m.requestTimes,
   loop |-> loop, admit |-> admit, waited |-> waited]

\* lines 59-63: record the admission and invoke the request
Admit(m, request, t) ==
  Result([m EXCEPT !.lastRequestTime = t,
                   !.requestTimes = Append(m.requestTimes, t)],
         <<Suspended("request", 0, request, 0)>>, request, <<>>)

\* the loop ends without clearing the flag
FinishKeepsFlag(m) == Result(m, <<>>, 0, <<>>)

\* lines 75-77: the while condition failed
Finish(m) == Result([m EXCEPT !.processing = FALSE], <<>>, 0, <<>>)

\* lines 49-57: take the head of the queue and space it from the last one
Dequeue(m, t) ==
  IF Len(m.queue) = 0 THEN Finish(m)
  ELSE LET request == Shift(m.queue).request
           m1 == [m EXCEPT !.queue = Shift(m.queue).rest]
           timeSinceLastRequest == t - m.lastRequestTime
       IN  IF NeedsSpacing(timeSinceLastRequest)
           THEN Result(m1, <<Suspended("spacing",
                                t + (minDelay - timeSinceLastRequest),
                                request, 0)>>, 0, <<>>)
           ELSE Admit(m1, request, t)

\* lines 31-46: one turn of the while loop up to its first suspension
LoopTop(m, t) ==
  IF Len(m.queue) = 0 THEN Finish(m)
  ELSE LET oneMinuteAgo == t - OneMinute
           m1 == [m EXCEPT !.requestTimes =
                              FilterTimes(m.requestTimes, oneMinuteAgo)]
       IN  IF AtLimit(m1.requestTimes)
              /\ WaitTime(t, m1.requestTimes[1]) > 0
           THEN Result(m1, <<Suspended("rateWait",
                                t + WaitTime(t, m1.requestTimes[1]),
                                0, oneMinuteAgo)>>, 0,
                       <<m1.requestTimes[1]>>)
           ELSE Dequeue(m1, t)

\* lines 43-44: back from the rate-limit wait
AfterRateWait(m, l, t) ==
  Dequeue([m EXCEPT !.requestTimes =
                       FilterTimes(m.requestTimes, l.oneMinuteAgo)], t)

\* an if in place of the while: the activation ends after one request
AfterRequestNoLoop(m, l, w, t) == Finish(m)

\* lines 62-73: the request has completed
AfterRequest(m, l, w, t) ==
  IF w.thrown /\ isRateLimitError(Err[w.value])
  THEN Result(m, <<Suspended("retry", t + RetryDelay(Err[w.value]),
                             l.request, 0)>>, 0, <<>>)
  ELSE LoopTop(m, t)

\* lines 70-71: back from the retry delay
AfterRetry(m, l, t) ==
  LoopTop([m EXCEPT !.queue = <<l.request>> \o m.queue], t)

----------------------------------------------------------------------------
Limiter ==
  [queue |-> queue, processing |-> processing,
   lastRequestTime |-> lastRequestTime, requestTimes |-> requestTimes]

RemoveAt(s, i) == SubSeq(s, 1, i - 1) \o SubSeq(s, i + 1, Len(s))

\* The effect of a run of processQueue on the state: r is what the run
\* returned, i the activation that ran (0 for a new one), c and f the log
\* and the in-flight set before the run.
Apply(r, i, c, f) ==
  /\ queue' = r.queue
  /\ processing' = r.processing
  /\ lastRequestTime' = r.lastRequestTime
  /\ requestTimes' = r.requestTimes
  /\ loops' = IF i = 0 THEN loops \o r.loop
              ELSE IF r.loop = <<>> THEN RemoveAt(loops, i)
              ELSE [loops EXCEPT ![i] = r.loop[1]]
  /\ calls' = IF r.admit = 0 THEN c
              ELSE Append(c, [task |-> r.admit, time |-> r.lastRequestTime,
                              result |-> "running", behind |-> 0,
                              waits |-> Len(waits)])
  /\ inflight' = IF r.admit = 0 THEN f ELSE f \cup {r.admit}
  /\ waits' = waits \o r.waited

\* analyzeResumeAgainstJob() not called yet
\* requests lists the times of its requests to the model
AtsIdle ==
  [pc |-> "idle", retryCount |-> 0, wake |-> 0, modelCalls |-> 0,
   last |-> "none", thrown |-> "none", requests |-> <<>>]

\* matchResumeToWebJobs() not called yet.  i counts the jobs from 1;
\* starts and requests list the times at which the analyses were started
\* and the model was sent a request, analyses the outcome of each analysis
MatcherIdle ==
  [pc |-> "idle", webJobs |-> <<>>, limitedJobs |-> <<>>, i |-> 0,
   matches |-> <<>>, rateLimitHit |-> FALSE, wake |-> 0, sorted |-> <<>>,
   starts |-> <<>>, requests |-> <<>>, analyses |-> <<>>]

\* compareResumeVersions() not called yet
CompareIdle == [pc |-> "idle", i |-> 0, comparisons |-> <<>>, failed |-> {}]

\* a fresh RateLimiter, an empty localStorage, no feature started
Fresh ==
  /\ now = StartTime
  /\ queue = <<>>
  /\ processing = FALSE
  /\ lastRequestTime = 0
  /\ requestTimes = <<>>
  /\ loops = <<>>
  /\ promise = <<>>
  /\ calls = <<>>
  /\ inflight = {}
  /\ waits = <<>>
  /\ direct = <<>>
  /\ ats = AtsIdle
  /\ matcher = MatcherIdle
  /\ compare = CompareIdle
  /\ store = [scoreHistory |-> <<>>, achievements |-> <<>>,
              leaderboard |-> <<>>, userId |-> <<>>, applications |-> <<>>]
  /\ saved = <<>>
  /\ ret = <<>>

Init ==
  /\ Fresh
  /\ arg = 0

\* execute(fn), lines 10-22, and the processQueue() call it makes
Execute(maxTasks, until) ==
  /\ Len(promise) < maxTasks
  /\ now <= until
  /\ promise' = Append(promise, Pending)
  /\ LET id == Len(promise) + 1
         q1 == Append(queue, id)
     IN  IF Busy(processing, q1)
         THEN /\ queue' = q1
              /\ UNCHANGED <<processing, lastRequestTime, requestTimes,
                             loops, calls, inflight, waits>>
         ELSE Apply(LoopTop([Limiter EXCEPT !.queue = q1,
                                            !.processing = TRUE], now),
                    0, calls, inflight)
  /\ UNCHANGED <<now, direct>>
  /\ UNCHANGED aux

\* the timer of a sleeping activation fires
Wake ==
  \E i \in DOMAIN loops :
    LET l == loops[i] IN
    /\ l.pc \in {"rateWait", "spacing", "retry"}
    /\ now >= l.wake
    /\ Apply(CASE l.pc = "rateWait" -> AfterRateWait(Limiter, l, now)
               [] l.pc = "spacing"  -> Admit(Limiter, l.request, now)
               [] l.pc = "retry"    -> AfterRetry(Limiter, l, now),
             i, calls, inflight)
    /\ UNCHANGED <<now, promise, direct>>
    /\ UNCHANGED aux

LastCall(task) ==
  CHOOSE k \in DOMAIN calls :
    /\ calls[k].task = task
    /\ \A j \in DOMAIN calls : calls[j].task = task => j <= k

\* the work of the task an activation awaits settles with outcome out
Settle(out) ==
  \E i \in DOMAIN loops :
    LET l == loops[i]
        w == Wrapper(out)
        k == LastCall(l.request)
    IN
    /\ l.pc = "request"
    /\ promise' = [promise EXCEPT ![l.request] = SettlePromise(@, w)]
    /\ Apply(AfterRequest(Limiter, l, w, now), i,
             [calls EXCEPT ![k].result = out,
                           ![k].behind = IF queue = <<>> THEN 0 ELSE Head(queue)],
             inflight \ {l.request})
    /\ UNCHANGED <<now, direct>>
    /\ UNCHANGED aux

Timers ==
  {loops[i].wake : i \in {j \in DOMAIN loops : loops[j].pc # "request"}}
    \cup (IF ats.pc = "sleeping" THEN {ats.wake} ELSE {})
    \cup (IF matcher.pc = "waiting" THEN {matcher.wake} ELSE {})

Instants(step) ==
  {now + step} \cup Timers
    \cup {requestTimes[i] + OneMinute : i \in DOMAIN requestTimes \cap {1}}

\* The clock advances, by free steps up to maxTime and to the due time of
\* any timer; when late is FALSE no timer is overrun.
Advance(step, maxTime, late) ==
  /\ \E t \in Instants(step) :
       /\ t > now
       /\ t <= maxTime \/ t \in Timers
       /\ late \/ \A w \in Timers : t <= w
       /\ now' = t
  /\ UNCHANGED <<queue, processing, lastRequestTime, requestTimes, loops,
                 promise, calls, inflight, waits, direct>>
  /\ UNCHANGED aux

Next ==
  \/ Execute(MaxTasks, MaxTime)
  \/ Wake
  \/ \E out \in Outcomes : Settle(out)
  \/ Advance(Step, MaxTime, TRUE)

Spec == Init /\ [][Next]_vars

BurstNext ==
  \/ Execute(BurstTasks, StartTime + BurstWindow)
  \/ Wake
  \/ \E out \in BurstOutcomes : Settle(out)
  \/ Advance(BurstStep, BurstMaxTime, FALSE)

BurstSpec == Init /\ [][BurstNext]_vars

LiveNext ==
  \/ Execute(LiveTasks, LiveMaxTime)
  \/ Wake
  \/ \E out \in LiveOutcomes : Settle(out)
  \/ Advance(Step, LiveMaxTime, TRUE)

\* Timers fire, the clock moves on, and every work function invoked
\* eventually resolves or rejects.
LiveSpec ==
  /\ Init
  /\ [][LiveNext]_vars
  /\ WF_vars(Wake)
  /\ WF_vars(\E out \in LiveOutcomes : Settle(out))
  /\ WF_vars(Advance(Step, LiveMaxTime, TRUE))

----------------------------------------------------------------------------
(* The retry delay of processQueue(), line 67, on quota errors that carry  *)
(* any combination of the two hints.                                       *)

Hints == {-1} \cup 0..MaxHint

RetryErrors ==
  {[NoError EXCEPT !.code = 429, !.retryInfo = a, !.retryIn = b] :
     a \in Hints, b \in Hints}

RetryInit ==
  /\ Fresh
  /\ arg \in RetryErrors

EvalRetryDelay ==
  /\ ret = <<>>
  /\ ret' = <<RetryDelay(arg)>>
  /\ UNCHANGED <<now, queue, processing, lastRequestTime, requestTimes,
                 loops, promise, calls, inflight, waits, direct, arg, ats,
                 store, saved,
                 matcher, compare>>

RetryNext == EvalRetryDelay

RetrySpec == RetryInit /\ [][RetryNext]_vars

----------------------------------------------------------------------------
(* calculateScores() of utils/scorer.ts.  An optional field is <<>> when   *)
(* absent and <<v>> when present.  Sub-scores are in tenths of a point,    *)
(* overall is in points.                                                   *)

Clamp(x, lo, hi) == IF x < lo THEN lo ELSE IF x > hi THEN hi ELSE x

\* the spread bonus without the guard on salaryMax = 0
SpreadBonusUnguarded(salaryMin, salaryMax) ==
  IF 100 * (salaryMax - salaryMin) < 15 * salaryMax THEN 100
  ELSE IF 100 * (salaryMax - salaryMin) < 30 * salaryMax THEN 50
  ELSE 0

\* spread = (salaryMax - salaryMin) / salaryMax against 0.15 and 0.30
SpreadBonus(salaryMin, salaryMax) ==
  IF salaryMax = 0 THEN 0
  ELSE IF 100 * (salaryMax - salaryMin) < 15 * salaryMax THEN 100
  ELSE IF 100 * (salaryMax - salaryMin) < 30 * salaryMax THEN 50
  ELSE 0

SalaryScore(salaryMin, salaryMax) ==
  IF salaryMin = <<>> \/ salaryMax = <<>> THEN 0
  ELSE 250 + SpreadBonus(salaryMin[1], salaryMax[1])

LocationScore(workLocationType) ==
  CASE workLocationType = "remote" -> 200
    [] workLocationType = "hybrid" -> 150
    [] workLocationType = "onsite" -> 50
    [] OTHER -> 0

\* the linear scale without the clamp
CostOfLivingScoreUnclamped(costOfLivingScore) ==
  IF costOfLivingScore = <<>> THEN 0 ELSE 3 * costOfLivingScore[1]

\* clamp(costOfLivingScore, 0, 100) / 100 * 30
CostOfLivingScore(costOfLivingScore) ==
  IF costOfLivingScore = <<>> THEN 0
  ELSE 3 * Clamp(costOfLivingScore[1], 0, 100)

\* the tiers closed on the right
FreshnessScoreClosed(postingAgeInDays) ==
  IF postingAgeInDays = <<>> THEN 0
  ELSE LET age == Clamp(postingAgeInDays[1], 0, postingAgeInDays[1])
       IN  IF age <= 7 THEN 150
           ELSE IF age <= 14 THEN 120
           ELSE IF age <= 30 THEN 75
           ELSE IF age <= 60 THEN 30
           ELSE 0

FreshnessScore(postingAgeInDays) ==
  IF postingAgeInDays = <<>> THEN 0
  ELSE LET age == IF postingAgeInDays[1] < 0 THEN 0 ELSE postingAgeInDays[1]
       IN  IF age < 7 THEN 150
           ELSE IF age < 14 THEN 120
           ELSE IF age < 30 THEN 75
           ELSE IF age < 60 THEN 30
           ELSE 0

\* truncation in place of rounding
RoundDown(tenths) == tenths \div 10

\* to the nearest integer, halves up
RoundHalfUp(tenths) == (tenths + 5) \div 10

calculateScores(data) ==
  LET salary == SalaryScore(data.salaryMin, data.salaryMax)
      location == LocationScore(data.workLocationType)
      costOfLiving == CostOfLivingScore(data.costOfLivingScore)
      redFlags == FreshnessScore(data.postingAgeInDays)
  IN  [overall |-> RoundHalfUp(salary + location + costOfLiving + redFlags),
       salary |-> salary, location |-> location,
       costOfLiving |-> costOfLiving, redFlags |-> redFlags]

Optional(values) == {<<>>} \cup {<<v>> : v \in values}

Salaries == Optional({0, 70, 85, 86, 100, 105})
Locations == {"remote", "hybrid", "onsite", "unspecified", "elsewhere"}
CostOfLivingScores == Optional({-10, 0, 33, 45, 100, 150})
Ages == Optional(-2..MaxAge)

Attributes ==
  [salaryMin : Salaries, salaryMax : Salaries, workLocationType : Locations,
   costOfLivingScore : CostOfLivingScores, postingAgeInDays : Ages]

ScoreInit ==
  /\ Fresh
  /\ arg \in Attributes

EvalScores ==
  /\ ret = <<>>
  /\ arg \in Attributes
  /\ ret' = <<calculateScores(arg)>>
  /\ UNCHANGED <<now, queue, processing, lastRequestTime, requestTimes,
                 loops, promise, calls, inflight, waits, direct, arg, ats,
                 store, saved,
                 matcher, compare>>

ScoreNext == EvalScores

ScoreSpec == ScoreInit /\ [][ScoreNext]_vars

----------------------------------------------------------------------------
(* The score history of src/unnamed/part_001, lines 1 to 33.               *)
(* store.scoreHistory is the value under STORAGE_KEY: the stringified      *)
(* entries, <<>> when the key is absent.  saved lists the entries handed   *)
(* to saveScoreHistory() since the key was last absent.                    *)

\* the entry saved at time t: its date is t, jobTitle is optional
EntryAt(t) ==
  [date |-> t, overallScore |-> t % 101,
   jobTitle |-> IF t % 2 = 0 THEN <<>> ELSE <<"Job Analysis">>]

\* JSON.stringify leaves out a property that is undefined
Stringify(entry) ==
  IF entry.jobTitle = <<>>
  THEN [date |-> entry.date, overallScore |-> entry.overallScore]
  ELSE [date |-> entry.date, overallScore |-> entry.overallScore,
        jobTitle |-> entry.jobTitle[1]]

\* JSON.parse: a property left out reads as undefined
Parse(stored) ==
  [date |-> stored.date, overallScore |-> stored.overallScore,
   jobTitle |-> IF "jobTitle" \in DOMAIN stored THEN <<stored.jobTitle>>
                ELSE <<>>]

getScoreHistory == [i \in 1..Len(store.scoreHistory) |->
                      Parse(store.scoreHistory[i])]

\* history.slice(0, 100)
TrimFirst(history) ==
  IF Len(history) <= HistoryLimit THEN history
  ELSE SubSeq(history, 1, HistoryLimit)

\* history.slice(-100)
Trim(history) ==
  IF Len(history) <= HistoryLimit THEN history
  ELSE SubSeq(history, Len(history) - HistoryLimit + 1, Len(history))

HistoryUnchanged ==
  UNCHANGED <<queue, processing, lastRequestTime, requestTimes, loops,
              promise, calls, inflight, waits, direct, arg, ret, ats,
              matcher, compare>>

\* one call of saveScoreHistory(); the next call comes at a later date
saveScoreHistory(entry) ==
  /\ now < StartTime + MaxSaves
  /\ LET trimmed == Trim(Append(getScoreHistory, entry))
     IN  store' = [store EXCEPT !.scoreHistory =
                     [i \in 1..Len(trimmed) |-> Stringify(trimmed[i])]]
  /\ saved' = Append(saved, entry)
  /\ now' = now + 1
  /\ HistoryUnchanged

clearScoreHistory ==
  /\ store.scoreHistory # <<>>
  /\ store' = [store EXCEPT !.scoreHistory = <<>>]
  /\ saved' = <<>>
  /\ UNCHANGED now
  /\ HistoryUnchanged

HistoryNext ==
  \/ saveScoreHistory(EntryAt(now))
  \/ clearScoreHistory

HistorySpec == Init /\ [][HistoryNext]_vars

----------------------------------------------------------------------------
(* src/utils/achievements.ts.  store.achievements is the value under its   *)
(* STORAGE_KEY, <<>> when the key is absent.  ret records the last call:   *)
(* its argument, what it returned (<<>> for null) and the list before it.  *)

ACHIEVEMENT_DEFINITIONS ==
  {"first_analysis", "resume_optimized", "cover_letter_master",
   "high_score_80", "high_score_90", "perfect_score", "five_applications",
   "ten_applications", "skill_gap_analyzed", "salary_negotiated"}

\* the ids the calls are made with; the last one is not defined
AwardIds ==
  {"first_analysis", "high_score_80", "perfect_score", "five_applications",
   "night_owl"}

getAchievements == store.achievements

\* the test of line 30 left out
NeverEarned(earned, achievementId) == FALSE

\* line 30
AlreadyEarned(earned, achievementId) ==
  \E k \in DOMAIN earned : earned[k].id = achievementId

checkAndAwardAchievement(achievementId) ==
  /\ LET earned == getAchievements
         achievement == [id |-> achievementId, earnedDate |-> now]
     IN  IF AlreadyEarned(earned, achievementId)
            \/ achievementId \notin ACHIEVEMENT_DEFINITIONS
         THEN /\ ret' = <<[achievementId |-> achievementId,
                           returned |-> <<>>, before |-> earned]>>
              /\ UNCHANGED store
         ELSE /\ ret' = <<[achievementId |-> achievementId,
                           returned |-> <<achievement>>, before |-> earned]>>
              /\ store' = [store EXCEPT
                             !.achievements = Append(earned, achievement)]
  /\ UNCHANGED <<now, queue, processing, lastRequestTime, requestTimes,
                 loops, promise, calls, inflight, waits, direct, arg, ats,
                 saved, matcher, compare>>

AwardNext == \E achievementId \in AwardIds :
               checkAndAwardAchievement(achievementId)

AwardSpec == Init /\ [][AwardNext]_vars

----------------------------------------------------------------------------
(* The leaderboard of src/unnamed/part_002.  store.userId and              *)
(* store.leaderboard are the values under USER_ID_KEY and STORAGE_KEY,     *)
(* <<>> when absent.  ret records the last call of submitScore(): its      *)
(* score and the stored entries before it.                                 *)

RandomParts == {"k3j9x2m1q", "z8w7v6u5t"}

\* getUserId(), lines 7-14: `user_${Date.now()}_${random}`
UserIdOr(random) ==
  IF store.userId # <<>> THEN store.userId
  ELSE <<[time |-> now, random |-> random]>>

RECURSIVE FirstTwoDigits(_)
FirstTwoDigits(n) == IF n < 100 THEN n ELSE FirstTwoDigits(n \div 10)

\* getUserBadge(), lines 17-20: the characters 5 and 6 of the id are the
\* first two digits of the time
Badge(userId) == FirstTwoDigits(userId[1].time)

\* getLeaderboard(), lines 53-72, for the user id the call finds or makes
getLeaderboard(userId) ==
  [k \in DOMAIN store.leaderboard |->
     IF store.leaderboard[k].badge = Badge(userId)
     THEN [store.leaderboard[k] EXCEPT !.isCurrentUser = TRUE]
     ELSE store.leaderboard[k]]

\* the old entry of the user is kept
KeepEveryEntry(entries) == entries

\* line 29
RemoveCurrentUser(entries) ==
  SelectSeq(entries, LAMBDA e : ~e.isCurrentUser)

\* line 40: the entry goes before the first one with a lower score
InsertByScore(list, entry) ==
  LET after == {j \in DOMAIN list : list[j].score < entry.score}
      k == IF after = {} THEN Len(list) + 1
           ELSE CHOOSE j \in after : \A h \in after : j <= h
  IN  SubSeq(list, 1, k - 1) \o <<entry>> \o SubSeq(list, k, Len(list))

RECURSIVE SortByScore(_)
SortByScore(list) ==
  IF list = <<>> THEN <<>>
  ELSE InsertByScore(SortByScore(SubSeq(list, 1, Len(list) - 1)),
                     list[Len(list)])

\* lines 41-46
RankAndTrim(sorted) ==
  [k \in 1..(IF Len(sorted) < LeaderboardLimit THEN Len(sorted)
             ELSE LeaderboardLimit) |-> [sorted[k] EXCEPT !.rank = k]]

submitScore(score, random) ==
  /\ LET userId == UserIdOr(random)
         filtered == RemoveCurrentUser(getLeaderboard(userId))
         pushed == Append(filtered, [rank |-> 0, score |-> score,
                                     badge |-> Badge(userId),
                                     isCurrentUser |-> TRUE])
     IN  /\ store' = [store EXCEPT
                        !.userId = userId,
                        !.leaderboard = RankAndTrim(SortByScore(pushed))]
         /\ ret' = <<[score |-> score, before |-> store.leaderboard]>>
  /\ UNCHANGED <<now, queue, processing, lastRequestTime, requestTimes,
                 loops, promise, calls, inflight, waits, direct, arg, ats,
                 saved, matcher, compare>>

LeaderboardNext ==
  \E score \in 0..MaxScore, random \in RandomParts :
    submitScore(score, random)

LeaderboardSpec == Init /\ [][LeaderboardNext]_vars

----------------------------------------------------------------------------
(* src/utils/applicationTracker.ts.  store.applications is the value under *)
(* its STORAGE_KEY, <<>> when the key is absent.  ret records the last     *)
(* call: the operation, its arguments and the stored list before it.       *)

AppIds == {"app_1", "app_2", "app_3"}
UnknownIds == {"app_9"}
Statuses == {"applied", "interview"}
Dates == {<<>>, <<"2026-01-15">>}

Applications == [id : AppIds, status : Statuses, interviewDate : Dates]

getApplications == store.applications

\* findIndex() that finds nothing
NoIndex(applications, id) == 0

\* line 18, counting from 1: 0 when no application has the id
ExistingIndex(applications, id) ==
  LET found == {k \in DOMAIN applications : applications[k].id = id}
  IN  IF found = {} THEN 0
      ELSE CHOOSE k \in found : \A h \in found : k <= h

\* lines 17-26: the list saveApplication() stores
Saved(applications, application) ==
  IF ExistingIndex(applications, application.id) > 0
  THEN [applications EXCEPT
          ![ExistingIndex(applications, application.id)] = application]
  ELSE Append(applications, application)

TrackerUnchanged ==
  UNCHANGED <<now, queue, processing, lastRequestTime, requestTimes, loops,
              promise, calls, inflight, waits, direct, arg, ats, saved,
              matcher, compare>>

Called(op, id, status, interviewDate) ==
  ret' = <<[op |-> op, id |-> id, status |-> status,
            interviewDate |-> interviewDate, before |-> store.applications]>>

saveApplication(application) ==
  /\ store' = [store EXCEPT
                 !.applications = Saved(getApplications, application)]
  /\ Called("save", application.id, application.status,
            application.interviewDate)
  /\ TrackerUnchanged

deleteApplication(id) ==
  /\ store' = [store EXCEPT
                 !.applications =
                   SelectSeq(getApplications, LAMBDA app : app.id # id)]
  /\ Called("delete", id, "", <<>>)
  /\ TrackerUnchanged

\* lines 57-72; the application found is changed and handed to
\* saveApplication()
updateApplicationStatus(id, status, interviewDate) ==
  /\ LET applications == getApplications
         k == ExistingIndex(applications, id)
     IN  IF k > 0
         THEN store' =
                [store EXCEPT
                   !.applications =
                     Saved(applications,
                           [applications[k] EXCEPT
                              !.status = status,
                              !.interviewDate =
                                IF interviewDate # <<>> THEN interviewDate
                                ELSE @])]
         ELSE UNCHANGED store
  /\ Called("update", id, status, interviewDate)
  /\ TrackerUnchanged

TrackerNext ==
  \/ \E application \in Applications : saveApplication(application)
  \/ \E id \in AppIds \cup UnknownIds : deleteApplication(id)
  \/ \E id \in AppIds \cup UnknownIds, status \in Statuses,
        interviewDate \in Dates :
       updateApplicationStatus(id, status, interviewDate)

TrackerSpec == Init /\ [][TrackerNext]_vars

----------------------------------------------------------------------------
(* analyzeResumeAgainstJob() of src/services/geminiService.ts, lines       *)
(* 124-193, and its helper extractRetryDelay(), lines 196-211.             *)

geminiExtractRetryDelay(error) ==
  IF error.retryInfo # -1 THEN error.retryInfo * 1000
  ELSE IF error.errorRetryIn # -1 THEN error.errorRetryIn * 1000
  ELSE IF error.retryIn # -1 THEN error.retryIn * 1000
  ELSE Null

\* extractRetryDelay(error) || 12000, line 174
AtsRetryDelay(error) ==
  IF geminiExtractRetryDelay(error) \in {Null, 0} THEN DefaultRetryDelay
  ELSE geminiExtractRetryDelay(error)

\* the errors the retry of line 173 recognises
AtsRecognised(error) ==
  \/ error.code = 429
  \/ error.errorCode = 429
  \/ error.status = "RESOURCE_EXHAUSTED"

\* one retry too many
AtsMayRetryOnceMore(retryCount) == retryCount <= MaxRetries

AtsMayRetry(retryCount) == retryCount < MaxRetries

\* lines 180-192: the error the function finally throws
AtsThrow(error) ==
  IF "API key not valid" \in error.message \/ "API key" \in error.errorMessage
  THEN "Invalid API key"
  ELSE IF "API key is not set" \in error.message THEN "API key is not set"
  ELSE IF error.code = 429 \/ error.errorCode = 429
  THEN "Rate limit exceeded"
  ELSE "Failed to get ATS analysis"

AtsUnchanged ==
  UNCHANGED <<now, queue, processing, lastRequestTime, requestTimes, loops,
              promise, calls, inflight, waits, direct, arg, ret, store,
              saved, matcher, compare>>

\* analyzeResumeAgainstJob(resumeText, jobText) is called and issues its
\* request (line 157)
AtsCall ==
  /\ ats.pc = "idle"
  /\ ats' = [ats EXCEPT !.pc = "calling", !.modelCalls = 1,
                        !.requests = <<now>>]
  /\ AtsUnchanged

\* the model answers the request with outcome out
AtsReply(out) ==
  /\ ats.pc = "calling"
  /\ ats' = IF out = "ok"
            THEN [ats EXCEPT !.pc = "returned", !.last = out]
            ELSE IF AtsRecognised(Err[out]) /\ AtsMayRetry(ats.retryCount)
            THEN [ats EXCEPT !.pc = "sleeping", !.last = out,
                             !.wake = now + AtsRetryDelay(Err[out])]
            ELSE [ats EXCEPT !.pc = "threw", !.last = out,
                             !.thrown = AtsThrow(Err[out])]
  /\ AtsUnchanged

\* the retry delay is over: the recursive call of line 177
AtsWake ==
  /\ ats.pc = "sleeping"
  /\ now >= ats.wake
  /\ ats' = [ats EXCEPT !.pc = "calling", !.retryCount = @ + 1,
                        !.modelCalls = @ + 1,
                        !.requests = Append(@, now)]
  /\ AtsUnchanged

AtsNext ==
  \/ AtsCall
  \/ \E out \in AtsOutcomes : AtsReply(out)
  \/ AtsWake
  \/ Advance(Step, MaxTime, TRUE)

AtsSpec == Init /\ [][AtsNext]_vars

----------------------------------------------------------------------------
(* src/unnamed/part_000 (urlValidator).  A URL is <<>> when absent and     *)
(* <<[protocol, hostname, pathname]>> otherwise; hostname is the known     *)
(* domain the host name contains, pathname the set of the substrings the   *)
(* code looks for that the lower-cased path contains.                      *)

JobBoardDomains ==
  {"dice.com", "simplyhired.com", "careerbuilder.com", "jobs.com",
   "snagajob.com", "flexjobs.com", "remote.co", "weworkremotely.com",
   "angel.co", "stackoverflow.com", "github.com"}

CareerPaths ==
  {"/job", "/jobs", "/career", "/careers", "/opportunit", "/opening"}

isValidJobUrl(url) ==
  IF url = <<>> THEN FALSE
  ELSE LET hostname == url[1].hostname
           pathname == url[1].pathname
       IN  IF url[1].protocol # "https:" THEN FALSE
           ELSE IF hostname = "linkedin.com"
           THEN pathname \cap {"/jobs/view/", "/jobs/collection/",
                               "/jobs/search/"} # {}
           ELSE IF hostname = "indeed.com"
           THEN pathname \cap {"/viewjob", "/jobs/view", "?jk&from"} # {}
           ELSE IF hostname = "glassdoor.com"
           THEN pathname \cap {"/job-listing/", "/job/"} # {}
           ELSE IF hostname \in {"monster.com", "ziprecruiter.com"}
           THEN pathname \cap {"/jobs/", "/job/"} # {}
           ELSE IF hostname \in JobBoardDomains
           THEN pathname \cap {"/job", "/jobs", "/career", "/careers"} # {}
           ELSE pathname \cap CareerPaths # {}

extractSourceFromUrl(url) ==
  IF url = <<>> THEN "Web Search"
  ELSE CASE url[1].hostname = "linkedin.com" -> "LinkedIn"
         [] url[1].hostname = "indeed.com" -> "Indeed"
         [] url[1].hostname = "glassdoor.com" -> "Glassdoor"
         [] url[1].hostname = "monster.com" -> "Monster"
         [] url[1].hostname = "ziprecruiter.com" -> "ZipRecruiter"
         [] url[1].hostname = "dice.com" -> "Dice"
         [] url[1].hostname = "acme.com" -> "Acme"
         [] OTHER -> "Company Website"

validateJobData(job) ==
  IF isValidJobUrl(job.url)
  THEN [isValid |-> TRUE, url |-> job.url,
        source |-> IF job.source # <<>> THEN job.source
                   ELSE <<extractSourceFromUrl(job.url)>>]
  ELSE IF job.source # <<>>
          /\ job.source[1] \in {"LinkedIn", "Indeed", "Glassdoor", "Monster",
                                "ZipRecruiter"}
  THEN [isValid |-> TRUE, url |-> <<>>, source |-> job.source]
  ELSE [isValid |-> FALSE, url |-> <<>>, source |-> <<>>]

----------------------------------------------------------------------------
(* matchResumeToWebJobs() of src/utils/jobMatcher.ts, lines 50-201, with   *)
(* searchJobsForResume() of src/services/geminiService.ts, lines           *)
(* 1267-1420.  A job the model reports carries the score its analysis      *)
(* gives; generic says that its description or company name is one the     *)
(* search rejects.                                                         *)

LinkedInView ==
  <<[protocol |-> "https:", hostname |-> "linkedin.com",
     pathname |-> {"/jobs/view/", "/jobs/", "/jobs", "/job"}]>>
LinkedInHttp ==
  <<[protocol |-> "http:", hostname |-> "linkedin.com",
     pathname |-> {"/jobs/view/", "/jobs/", "/jobs", "/job"}]>>
DiceJob ==
  <<[protocol |-> "https:", hostname |-> "dice.com",
     pathname |-> {"/job", "/job/"}]>>
AcmeCareers ==
  <<[protocol |-> "https:", hostname |-> "acme.com",
     pathname |-> {"/career", "/careers"}]>>

JobKinds ==
  {[url |-> LinkedInView, source |-> <<>>, score |-> 80, generic |-> FALSE],
   [url |-> AcmeCareers, source |-> <<>>, score |-> 0, generic |-> FALSE],
   [url |-> DiceJob, source |-> <<"Dice">>, score |-> 60, generic |-> FALSE],
   [url |-> LinkedInHttp, source |-> <<"Indeed">>, score |-> 70,
    generic |-> FALSE],
   [url |-> LinkedInView, source |-> <<>>, score |-> 90, generic |-> TRUE]}

\* the lists of jobs the model may report to the search
MatchInputs == UNION {[1..n -> JobKinds] : n \in 0..MaxJobs}

BatchInputs ==
  {[i \in 1..n |-> [url |-> LinkedInView, source |-> <<>>, score |-> 80,
                    generic |-> FALSE]] : n \in (MaxFound - 1)..MaxFound}

\* lines 1341-1380 of geminiService.ts
Validated(found) ==
  LET Accepted(job) == isValidJobUrl(job.url) /\ ~job.generic
      kept == SelectSeq(found, Accepted)
  IN  [i \in 1..Len(kept) |->
         [kept[i] EXCEPT !.source = IF @ # <<>> THEN @
                                    ELSE <<extractSourceFromUrl(kept[i].url)>>]]

\* webJobs.slice(0, 8)
Limited(webJobs) ==
  SubSeq(webJobs, 1, IF Len(webJobs) < JobLimit THEN Len(webJobs)
                     ELSE JobLimit)

\* the substrings line 112 looks for that the thrown message contains
ThrownMessage(thrown, error) ==
  IF thrown = "Rate limit exceeded" THEN {"Rate limit"}
  ELSE IF thrown = "Failed to get ATS analysis"
  THEN (IF error.message # {} THEN error.message ELSE error.errorMessage)
         \cap {"Rate limit", "quota"}
  ELSE {}

\* line 112: analyzeResumeAgainstJob() throws Error objects, which have no
\* code, so the message decides
IsRateLimit(thrown, error) == ThrownMessage(thrown, error) # {}

\* the entry pushed for job i (lines 93-107, 124-138, 149-163)
Match(i, job, matchScore, recommendation) ==
  LET validation == validateJobData(job)
  IN  [job |-> i, matchScore |-> matchScore,
       recommendation |-> recommendation,
       source |-> IF validation.source # <<>> THEN validation.source[1]
                  ELSE extractSourceFromUrl(job.url),
       url |-> IF validation.url # <<>> THEN validation.url ELSE job.url]

RecognisedSources ==
  {"LinkedIn", "Indeed", "Glassdoor", "Monster", "ZipRecruiter", "Dice",
   "SimplyHired", "CareerBuilder"}

\* lines 168-178
KeepMatch(match) ==
  isValidJobUrl(match.url) \/ match.source \in RecognisedSources

\* a - b in place of b - a
CompareAscending(a, b) ==
  IF a.matchScore = 0 /\ b.matchScore = 0 THEN 0
  ELSE IF a.matchScore = 0 THEN 1
  ELSE IF b.matchScore = 0 THEN -1
  ELSE a.matchScore - b.matchScore

\* lines 181-186
Compare(a, b) ==
  IF a.matchScore = 0 /\ b.matchScore = 0 THEN 0
  ELSE IF a.matchScore = 0 THEN 1
  ELSE IF b.matchScore = 0 THEN -1
  ELSE b.matchScore - a.matchScore

\* Array.prototype.sort is stable: match goes before the first entry that
\* the comparator puts after it
InsertSorted(list, match) ==
  LET after == {j \in DOMAIN list : Compare(list[j], match) > 0}
      k == IF after = {} THEN Len(list) + 1
           ELSE CHOOSE j \in after : \A h \in after : j <= h
  IN  SubSeq(list, 1, k - 1) \o <<match>> \o SubSeq(list, k, Len(list))

RECURSIVE SortMatches(_)
SortMatches(list) ==
  IF list = <<>> THEN <<>>
  ELSE InsertSorted(SortMatches(SubSeq(list, 1, Len(list) - 1)),
                    list[Len(list)])

\* lines 167-196: the function returns sorted or throws
Return(m) ==
  LET sorted == SortMatches(SelectSeq(m.matches, KeepMatch))
  IN  [m EXCEPT !.sorted = sorted,
                !.pc = IF sorted = <<>> THEN "threw" ELSE "returned"]

\* the loop goes on to the job after the i-th: the sleep of line 80
Continue(m, i) ==
  IF i + 1 > Len(m.limitedJobs) THEN Return(m)
  ELSE [m EXCEPT !.pc = "waiting", !.i = i + 1, !.wake = now + RequestGap]

\* lines 83-91: the i-th job is validated and its analysis started
Body(m, i) ==
  IF validateJobData(m.limitedJobs[i]).isValid
  THEN [m EXCEPT !.pc = "analysing", !.i = i, !.starts = Append(@, now)]
  ELSE Continue(m, i)

MatcherUnchanged ==
  UNCHANGED <<queue, processing, lastRequestTime, requestTimes, loops,
              promise, calls, inflight, waits, direct, arg, ret, store,
              saved, compare, now>>

\* the activation becomes m; an analysis that starts issues the first
\* request of analyzeResumeAgainstJob()
Become(m) ==
  /\ matcher' = m
  /\ ats' = IF m.pc = "analysing"
            THEN [AtsIdle EXCEPT !.pc = "calling", !.modelCalls = 1,
                                 !.requests = <<now>>]
            ELSE ats
  /\ MatcherUnchanged

\* matchResumeToWebJobs(resumeText) is called: the request of the search
MatchCall ==
  /\ matcher.pc = "idle"
  /\ matcher' = [matcher EXCEPT !.pc = "searching", !.requests = <<now>>]
  /\ UNCHANGED ats
  /\ MatcherUnchanged

\* the model answers the search with the jobs of arg, or the search fails
SearchReply(ok) ==
  /\ matcher.pc = "searching"
  /\ IF ~ok \/ Validated(arg) = <<>>
     THEN Become([matcher EXCEPT !.pc = "threw"])
     ELSE Become(Body([matcher EXCEPT
                         !.webJobs = Validated(arg),
                         !.limitedJobs = Limited(Validated(arg))], 1))

\* the sleep of line 80 is over
MatchWake ==
  /\ matcher.pc = "waiting"
  /\ now >= matcher.wake
  /\ Become(Body(matcher, matcher.i))

\* analyzeResumeAgainstJob() has returned or thrown: lines 93-164
AnalysisDone ==
  /\ matcher.pc = "analysing"
  /\ ats.pc \in {"returned", "threw"}
  /\ LET i == matcher.i
         job == matcher.limitedJobs[i]
         valid == validateJobData(job).isValid
         m == [matcher EXCEPT
                 !.requests = @ \o ats.requests,
                 !.analyses = Append(@, [job |-> i, outcome |-> ats.pc,
                                         last |-> ats.last,
                                         thrown |-> ats.thrown])]
         Push(matchScore, recommendation) ==
           [m EXCEPT !.matches =
                       Append(@, Match(i, job, matchScore, recommendation))]
     IN  IF ats.pc = "returned"
         THEN Become(Continue(Push(job.score, "analysis"), i))
         ELSE IF IsRateLimit(ats.thrown, Err[ats.last])
         THEN Become(Return([(IF valid THEN Push(0, "rate limit") ELSE m)
                               EXCEPT !.rateLimitHit = TRUE]))
         ELSE Become(Continue(IF valid THEN Push(0, "unable") ELSE m, i))

MatchStep(outcomes) ==
  \/ MatchCall
  \/ \E ok \in BOOLEAN : SearchReply(ok)
  \/ MatchWake
  \/ AnalysisDone
  \/ \E out \in outcomes : AtsReply(out)
  \/ AtsWake
  \/ Advance(Step, StartTime, FALSE)

MatchInit ==
  /\ Fresh
  /\ arg \in MatchInputs

MatchNext == MatchStep(MatchOutcomes)

MatchSpec == MatchInit /\ [][MatchNext]_vars

BatchInit ==
  /\ Fresh
  /\ arg \in BatchInputs

BatchNext == MatchStep(BatchOutcomes)

BatchSpec == BatchInit /\ [][BatchNext]_vars

----------------------------------------------------------------------------
(* compareResumeVersions() of src/services/geminiService.ts, lines         *)
(* 771-832.  arg is resumeTexts.  The model answers a request with a       *)
(* comparison object that carries an id and a name of its own making, with *)
(* the JSON null, with text that is not JSON, or the request fails.        *)

Resumes == {[id |-> "r1", name |-> "Resume A"],
            [id |-> "r2", name |-> "Resume B"]}

CompareInputs == UNION {[1..n -> Resumes] : n \in 0..MaxResumes}

CompareReplies == {"object", "null", "malformed", "code429", "network"}

\* the comparison as the model wrote it
ModelComparison ==
  [resumeId |-> "model", resumeName |-> "model", matchScore |-> 75,
   recommendation |-> "analysis"]

\* lines 820-827
Placeholder(resume) ==
  [resumeId |-> resume.id, resumeName |-> resume.name, matchScore |-> 0,
   recommendation |-> "Unable to analyze this resume version"]

\* the id and the name are left as the model wrote them
PushedAsReceived(resume, reply) ==
  IF reply = "object" THEN ModelComparison ELSE Placeholder(resume)

\* lines 803-828: the entry pushed for resume.  Only an object passes
\* lines 813-816; a failed request, a parse error and the assignment to a
\* property of null all end in the catch
Pushed(resume, reply) ==
  IF reply = "object"
  THEN [ModelComparison EXCEPT !.resumeId = resume.id,
                               !.resumeName = resume.name]
  ELSE Placeholder(resume)

CompareUnchanged ==
  UNCHANGED <<now, queue, processing, lastRequestTime, requestTimes, loops,
              promise, calls, inflight, waits, direct, arg, ret, ats, store,
              saved, matcher>>

\* compareResumeVersions(resumeTexts, jobDescription) is called and issues
\* the request for the first resume, if there is one
CompareCall ==
  /\ compare.pc = "idle"
  /\ compare' = IF arg = <<>> THEN [compare EXCEPT !.pc = "returned"]
                ELSE [compare EXCEPT !.pc = "calling", !.i = 1]
  /\ CompareUnchanged

\* the request for the i-th resume is answered; the loop goes on to the
\* next resume or the function returns
CompareReply(reply) ==
  /\ compare.pc = "calling"
  /\ compare' =
       [compare EXCEPT
          !.comparisons = Append(@, Pushed(arg[compare.i], reply)),
          !.failed = IF reply = "object" THEN @ ELSE @ \cup {compare.i},
          !.i = @ + 1,
          !.pc = IF compare.i = Len(arg) THEN "returned" ELSE "calling"]
  /\ CompareUnchanged

CompareInit ==
  /\ Fresh
  /\ arg \in CompareInputs

CompareNext ==
  \/ CompareCall
  \/ \E reply \in CompareReplies : CompareReply(reply)

CompareSpec == CompareInit /\ [][CompareNext]_vars

----------------------------------------------------------------------------
(* The features of src/services/geminiService.ts.  Each awaits            *)
(* ai.models.generateContent() itself; none submits it to rateLimiter.    *)

Features ==
  {"analyzeJobPosting", "analyzeResumeAgainstJob", "generateCoverLetter",
   "analyzeSkillGap", "searchJobsOnWeb"}

\* a feature is started and issues its request to the external model
CallModel(feature) ==
  /\ Len(direct) < MaxDirect
  /\ direct' = Append(direct, [feature |-> feature, at |-> now,
                                done |-> FALSE])
  /\ UNCHANGED <<now, queue, processing, lastRequestTime, requestTimes,
                 loops, promise, calls, inflight, waits>>
  /\ UNCHANGED aux

\* the external model answers (or fails) one of the requests in flight
ModelReplies ==
  /\ \E i \in DOMAIN direct :
       /\ ~direct[i].done
       /\ direct' = [direct EXCEPT ![i].done = TRUE]
  /\ UNCHANGED <<now, queue, processing, lastRequestTime, requestTimes,
                 loops, promise, calls, inflight, waits>>
  /\ UNCHANGED aux

AppNext ==
  \/ \E feature \in Features : CallModel(feature)
  \/ ModelReplies
  \/ Advance(Step, MaxTime, TRUE)

AppSpec == Init /\ [][AppNext]_vars

----------------------------------------------------------------------------
(* Properties *)

Settled(result) == result # "running"
Quota(result) == result \notin {"running", "ok"} /\ isRateLimitError(Err[result])
OtherError(result) ==
  result \notin {"running", "ok"} /\ ~isRateLimitError(Err[result])

CallsOf(task) == {k \in DOMAIN calls : calls[k].task = task}

\* admissions up to the i-th that lie in the window (time_i - 60000, time_i]
InWindow(i) == {j \in 1..i : calls[j].time > calls[i].time - OneMinute}

\* C1: in the 60 seconds that end at any instant, at most requestsPerMinute
\* task executions are admitted (it is enough to look at the windows that
\* end at an admission)
RateCeiling ==
  \A i \in DOMAIN calls : Cardinality(InWindow(i)) <= requestsPerMinute

\* a window that is exactly full, closed by the admission that had to wait
RateCeilingWitness ==
  /\ Len(calls) > requestsPerMinute
  /\ waits # <<>>
  /\ \E i \in DOMAIN calls : Cardinality(InWindow(i)) = requestsPerMinute

\* C2: a task whose work fails with quota exhaustion is never rejected by
\* the throttle: its promise stays pending until a later attempt succeeds
QuotaNeverRejected ==
  \A i \in DOMAIN promise :
    promise[i].state = "rejected" => ~Quota(promise[i].value)

\* C3: when a call fails with quota exhaustion while another task waits in
\* the queue, the next work function invoked is the failed task's again
RetryGoesFirst ==
  \A k \in DOMAIN calls :
    (Quota(calls[k].result) /\ calls[k].behind # 0 /\ k < Len(calls))
      => calls[k + 1].task = calls[k].task

\* C4: a task whose work fails with a non-quota error is invoked exactly
\* once and its promise is rejected with that error; the failure does not
\* stop the draining loop, which ends only with every submitted task invoked
OtherErrorRejectsOnce ==
  /\ \A k \in DOMAIN calls :
       OtherError(calls[k].result) =>
         /\ promise[calls[k].task] =
              [state |-> "rejected", value |-> calls[k].result, n |-> 1]
         /\ Cardinality(CallsOf(calls[k].task)) = 1
  /\ queue # <<>> => processing /\ loops # <<>>
  /\ loops = <<>> => \A i \in DOMAIN promise : CallsOf(i) # {}

\* the first task failed with a network error while the second was queued,
\* and the second has been executed
OtherErrorRejectsOnceWitness ==
  /\ Len(calls) >= 2
  /\ calls[1].result = "network"
  /\ calls[1].behind = 2
  /\ calls[2].task = 2
  /\ calls[2].result = "ok"
  /\ promise[1].state = "rejected"
  /\ promise[2].state = "resolved"

\* C5: at most one task's work is executing, and a work function is not
\* invoked before the one invoked before it has resolved or rejected
OneAtATime ==
  /\ Cardinality(inflight) <= 1
  /\ \A k \in DOMAIN calls : k < Len(calls) => Settled(calls[k].result)

\* a task is in flight while two more, submitted meanwhile, wait
OneAtATimeWitness ==
  /\ Len(calls) = 1
  /\ inflight = {1}
  /\ queue = <<2, 3>>

\* C6: when no work has failed with quota exhaustion, the work functions
\* have been invoked in the order of the execute() calls
FifoAdmission ==
  (\A k \in DOMAIN calls : ~Quota(calls[k].result))
    => \A k \in DOMAIN calls : calls[k].task = k

\* three tasks started in order, the later ones submitted while the loop
\* was sleeping or a task was in flight, one of them failing otherwise
FifoAdmissionWitness ==
  /\ Len(calls) = 3
  /\ \A k \in DOMAIN calls : ~Quota(calls[k].result)
  /\ calls[1].behind = 2
  /\ calls[2].behind = 3
  /\ calls[2].result = "network"

\* C7: every request to the external model goes through the one
\* rateLimiter, so at most one request is in flight across all features
OneModelRequestInFlight ==
  Cardinality({i \in DOMAIN direct : ~direct[i].done})
    + Cardinality(inflight) <= 1

\* C8: consecutive admissions are at least minDelay apart
MinSpacing ==
  \A k \in DOMAIN calls :
    k > 1 => calls[k].time - calls[k - 1].time >= minDelay

\* the second task came to an idle throttle at the instant the first was
\* admitted and finished, and was admitted exactly minDelay later
MinSpacingWitness ==
  /\ Len(calls) = 2
  /\ calls[1].behind = 0
  /\ calls[2].time = calls[1].time + minDelay

\* the admission that follows the w-th rate-limit wait
AfterWait(k) ==
  calls[k].waits > (IF k = 1 THEN 0 ELSE calls[k - 1].waits)

FullWindowWait ==
  \A k \in DOMAIN calls :
    AfterWait(k) =>
      calls[k].time >= waits[calls[k].waits] + OneMinute + WaitBuffer

\* C9 as stated: after a rate-limit wait the task is admitted no earlier
\* than 60100 ms after the oldest entry, and the 13th of 13 tasks submitted
\* within one second no earlier than 60100 ms after the first
ThirteenthAfterBuffer ==
  /\ FullWindowWait
  /\ Len(calls) > requestsPerMinute =>
       calls[requestsPerMinute + 1].time
         >= calls[1].time + OneMinute + WaitBuffer

\* C9 amended: after a rate-limit wait the task is admitted no earlier than
\* 60100 ms after the oldest entry, and the 13th of 13 tasks submitted
\* within one second no earlier than 60000 ms after the first
ThirteenthAfterWindow ==
  /\ FullWindowWait
  /\ Len(calls) > requestsPerMinute =>
       calls[requestsPerMinute + 1].time >= calls[1].time + OneMinute

\* the 13th task waited for the full window and was admitted 60100 ms
\* after the first
ThirteenthAfterWindowWitness ==
  /\ Len(calls) > requestsPerMinute
  /\ AfterWait(requestsPerMinute + 1)
  /\ waits[1] = calls[1].time
  /\ calls[requestsPerMinute + 1].time
       = calls[1].time + OneMinute + WaitBuffer

\* C10: with at most requestsPerMinute tasks submitted, the rate-limit wait
\* is never taken, the tasks are invoked in submission order, and the loop
\* ends only when all have been invoked
NoWaitWithinLimit ==
  Len(promise) <= requestsPerMinute =>
    /\ waits = <<>>
    /\ \A k \in DOMAIN calls : calls[k].task = k
    /\ \A l \in {loops[i] : i \in DOMAIN loops} : l.pc # "rateWait"
    /\ ~processing => Len(calls) = Len(promise)

\* requestsPerMinute tasks, all executed, the throttle idle again
NoWaitWithinLimitWitness ==
  /\ Len(promise) = requestsPerMinute
  /\ Len(calls) = requestsPerMinute
  /\ ~processing
  /\ waits = <<>>
  /\ calls[requestsPerMinute].time < StartTime + OneMinute

\* C11: every promise returned by execute() is eventually settled, and
\* whenever the queue is empty the throttle eventually becomes idle
EventuallySettledAndIdle ==
  /\ \A i \in 1..LiveTasks :
       [](i \in DOMAIN promise =>
            <>(i \in DOMAIN promise /\ promise[i].state # "pending"))
  /\ [](queue = <<>> => <>(~processing))

\* every task submitted, one rejected with a quota error, all settled and
\* the throttle idle again
EventuallySettledAndIdleWitness ==
  /\ Len(promise) = LiveTasks
  /\ \A i \in DOMAIN promise : promise[i].state # "pending"
  /\ \E i \in DOMAIN promise : promise[i].value = "code429"
  /\ queue = <<>>
  /\ ~processing
  /\ loops = <<>>

\* C12: at most one activation of the draining loop exists, and it exists
\* exactly while processing is true
OneLoop ==
  /\ Len(loops) <= 1
  /\ processing <=> Len(loops) = 1

\* the loop sleeps for the spacing of the second task while the third,
\* submitted meanwhile, waits in the queue
OneLoopWitness ==
  /\ Len(loops) = 1
  /\ loops[1].pc = "spacing"
  /\ loops[1].request = 2
  /\ queue = <<3>>
  /\ processing

AtMostThreeCalls == ats.modelCalls <= 3

\* C14 amended: the first call is followed by at most 3 retries, so the
\* model is called at most 4 times, and exactly 4 times before the function
\* rejects on a recognised quota error
AtMostThreeRetries ==
  /\ ats.retryCount <= MaxRetries
  /\ ats.modelCalls = ats.retryCount + (IF ats.pc = "idle" THEN 0 ELSE 1)
  /\ (ats.pc = "threw" /\ AtsRecognised(Err[ats.last]))
       => ats.modelCalls = MaxRetries + 1

\* every attempt failed with code 429 and the function rejected
AtMostThreeRetriesWitness ==
  /\ ats.pc = "threw"
  /\ ats.last = "code429"
  /\ ats.modelCalls = MaxRetries + 1

\* C15: when the retries are used up on a recognised quota error, the
\* error thrown is the 'Rate limit exceeded' message
RateLimitExceededThrown ==
  (ats.pc = "threw" /\ AtsRecognised(Err[ats.last]))
    => ats.thrown = "Rate limit exceeded"

\* C16: for every attributes record, overall is between 0 and 100 and is
\* the sum of the four sub-scores rounded to the nearest integer, halves
\* up, with salary <= 35, location <= 20, costOfLiving <= 30, redFlags <= 15
OverallIsRoundedSum ==
  ret # <<>> =>
    LET r == ret[1]
        sum == r.salary + r.location + r.costOfLiving + r.redFlags
    IN  /\ 0 <= r.overall /\ r.overall <= 100
        /\ 10 * r.overall - 5 <= sum /\ sum < 10 * r.overall + 5
        /\ 0 <= r.salary /\ r.salary <= 350
        /\ 0 <= r.location /\ r.location <= 200
        /\ 0 <= r.costOfLiving /\ r.costOfLiving <= 300
        /\ 0 <= r.redFlags /\ r.redFlags <= 150

\* salaryMin above salaryMax, a cost-of-living score out of range, a
\* negative age and a sum of 87.5, rounded up to 88
OverallIsRoundedSumWitness ==
  /\ ret # <<>>
  /\ arg.salaryMin = <<105>>
  /\ arg.salaryMax = <<100>>
  /\ arg.costOfLivingScore = <<150>>
  /\ arg.postingAgeInDays = <<20>>
  /\ arg.workLocationType = "hybrid"
  /\ ret[1].overall = 88

\* C17: the freshness sub-score is 15 below 7 days, 12 from 7 to below 14,
\* 7.5 from 14 to below 30, 3 from 30 to below 60, 0 from 60 on and when
\* the age is absent; a negative age counts as 0
FreshnessTiers ==
  ret # <<>> =>
    LET a == arg.postingAgeInDays
        f == ret[1].redFlags
    IN  /\ a = <<>> => f = 0
        /\ a # <<>> =>
             /\ a[1] < 7 => f = 150
             /\ (7 <= a[1] /\ a[1] < 14) => f = 120
             /\ (14 <= a[1] /\ a[1] < 30) => f = 75
             /\ (30 <= a[1] /\ a[1] < 60) => f = 30
             /\ a[1] >= 60 => f = 0

\* a posting exactly 7 days old falls into the second tier
FreshnessTiersWitness ==
  /\ ret # <<>>
  /\ arg.postingAgeInDays = <<7>>
  /\ ret[1].redFlags = 120

\* C18: the salary sub-score is 0 when salaryMin or salaryMax is absent,
\* otherwise 25 plus 10 for a spread below 0.15, 5 for a spread from 0.15
\* to below 0.30 and nothing above; salaryMax = 0 gives no bonus
SalaryTiers ==
  ret # <<>> =>
    LET lo == arg.salaryMin
        hi == arg.salaryMax
        sal == ret[1].salary
    IN  /\ (lo = <<>> \/ hi = <<>>) => sal = 0
        /\ (lo # <<>> /\ hi # <<>>) =>
             /\ hi[1] = 0 => sal = 250
             /\ (hi[1] > 0 /\ 20 * (hi[1] - lo[1]) < 3 * hi[1]) => sal = 350
             /\ (hi[1] > 0 /\ 20 * (hi[1] - lo[1]) >= 3 * hi[1]
                  /\ 10 * (hi[1] - lo[1]) < 3 * hi[1]) => sal = 300
             /\ (hi[1] > 0 /\ 10 * (hi[1] - lo[1]) >= 3 * hi[1]) => sal = 250

\* salaryMax = 0 with a positive salaryMin: the base and no bonus
SalaryTiersWitness ==
  /\ ret # <<>>
  /\ arg.salaryMin = <<70>>
  /\ arg.salaryMax = <<0>>
  /\ ret[1].salary = 250

\* C19: the cost-of-living sub-score is 0 when the score is absent or not
\* positive, 30 when it is 100 or more, 0.3 times the score in between,
\* and so never leaves 0..30
CostOfLivingClamped ==
  ret # <<>> =>
    LET c == arg.costOfLivingScore
        sub == ret[1].costOfLiving
    IN  /\ 0 <= sub /\ sub <= 300
        /\ c = <<>> => sub = 0
        /\ c # <<>> =>
             /\ c[1] <= 0 => sub = 0
             /\ c[1] >= 100 => sub = 300
             /\ (0 < c[1] /\ c[1] < 100) => sub = 3 * c[1]

\* a score of 150 gives 30 points
CostOfLivingClampedWitness ==
  /\ ret # <<>>
  /\ arg.costOfLivingScore = <<150>>
  /\ ret[1].costOfLiving = 300

\* C20: after any sequence of saveScoreHistory calls the stored history
\* holds at most 100 entries, and they are the most recent min(n, 100) of
\* the n saved entries in the order they were saved
BoundedHistory ==
  LET h == getScoreHistory
      n == Len(saved)
  IN  /\ Len(h) <= 100
      /\ Len(h) = IF n < 100 THEN n ELSE 100
      /\ \A i \in 1..Len(h) : h[i] = saved[n - Len(h) + i]

\* 101 entries saved: the first one is gone, the second is now the oldest
BoundedHistoryWitness ==
  /\ Len(saved) = 101
  /\ Len(store.scoreHistory) = 100
  /\ getScoreHistory[1] = saved[2]
  /\ getScoreHistory[100] = saved[101]

\* C21: whenever the analysis of a job ends in a quota-exhaustion error of
\* a shape the bounded retry recognises, no later job is analysed and
\* matchResumeToWebJobs returns the matches gathered so far
QuotaStopsMatching ==
  \A a \in DOMAIN matcher.analyses :
    (/\ matcher.analyses[a].outcome = "threw"
     /\ AtsRecognised(Err[matcher.analyses[a].last]))
      => /\ a = Len(matcher.analyses)
         /\ matcher.pc = "returned"

\* the model requests issued so far by matchResumeToWebJobs and by the
\* analysis it is waiting for
MatcherRequests ==
  matcher.requests \o (IF matcher.pc = "analysing" THEN ats.requests ELSE <<>>)

\* C22: matchResumeToWebJobs analyses at most 8 jobs, starts consecutive
\* analyses at least 5000 ms apart and, the search included, issues at most
\* 12 model requests in any 60 seconds
AtMostTwelveRequestsPerMinute ==
  /\ Len(matcher.starts) <= 8
  /\ \A k \in 2..Len(matcher.starts) :
       matcher.starts[k] - matcher.starts[k - 1] >= 5000
  /\ \A k \in DOMAIN MatcherRequests :
       Cardinality({j \in 1..k :
                      MatcherRequests[j] > MatcherRequests[k] - 60000}) <= 12

\* C23: the list matchResumeToWebJobs returns is not empty, holds only
\* matches with a valid job URL or a recognised source, and has the
\* non-zero scores first, in descending order, and the zero scores last
SortedValidMatches ==
  matcher.pc = "returned" =>
    LET sorted == matcher.sorted
    IN  /\ sorted # <<>>
        /\ \A k \in DOMAIN sorted :
             \/ isValidJobUrl(sorted[k].url)
             \/ sorted[k].source \in RecognisedSources
        /\ \A j, k \in DOMAIN sorted :
             j < k =>
               /\ sorted[j].matchScore = 0 => sorted[k].matchScore = 0
               /\ sorted[k].matchScore # 0 =>
                    sorted[j].matchScore >= sorted[k].matchScore

\* three jobs analysed in the order 0, 60, 80 come back as 80, 60, 0
SortedValidMatchesWitness ==
  /\ matcher.pc = "returned"
  /\ Len(matcher.matches) = 3
  /\ matcher.matches[1].matchScore = 0
  /\ matcher.matches[2].matchScore = 60
  /\ Len(matcher.sorted) = 3
  /\ matcher.sorted[1].matchScore = 80
  /\ matcher.sorted[2].matchScore = 60
  /\ matcher.sorted[3].matchScore = 0

\* C24: compareResumeVersions returns exactly one comparison per input
\* resume, in input order, with that resume's id and name, whichever
\* requests fail; a failed resume gives a placeholder with matchScore 0,
\* and the function never rejects
OneComparisonPerResume ==
  /\ compare.pc \in {"idle", "calling", "returned"}
  /\ compare.pc = "returned" =>
       /\ Len(compare.comparisons) = Len(arg)
       /\ \A k \in DOMAIN arg :
            /\ compare.comparisons[k].resumeId = arg[k].id
            /\ compare.comparisons[k].resumeName = arg[k].name
            /\ k \in compare.failed =>
                 /\ compare.comparisons[k].matchScore = 0
                 /\ compare.comparisons[k].recommendation
                      = "Unable to analyze this resume version"

\* three resumes, the request for the second fails
OneComparisonPerResumeWitness ==
  /\ compare.pc = "returned"
  /\ Len(arg) = 3
  /\ compare.failed = {2}
  /\ compare.comparisons[1].matchScore = 75
  /\ compare.comparisons[2].matchScore = 0
  /\ compare.comparisons[3].resumeId = arg[3].id

\* C25: requestTimes never holds more than requestsPerMinute timestamps,
\* and the prune after the rate-limit wait leaves only timestamps of the 60
\* seconds before the admission decision that follows it
RateWindowBound ==
  /\ [](Len(requestTimes) <= requestsPerMinute)
  /\ [][((\E i \in DOMAIN loops : loops[i].pc = "rateWait")
          /\ ~(\E i \in DOMAIN loops' : loops'[i].pc = "rateWait"))
         => \A i \in DOMAIN requestTimes' :
              requestTimes'[i] > now - OneMinute]_vars

\* C26: whenever control is back in the event loop, a non-empty queue
\* implies that processing is true and a draining loop exists, and with
\* no loop left every submitted task has been invoked
NoStrandedTask ==
  /\ queue # <<>> => (processing /\ Len(loops) = 1)
  /\ ~processing => \A task \in DOMAIN promise : CallsOf(task) # {}

\* the first task is done, the second is executing, and the third, which
\* was submitted meanwhile, waits in the queue of the same loop
NoStrandedTaskWitness ==
  /\ queue = <<3>>
  /\ processing
  /\ Len(loops) = 1
  /\ loops[1].pc = "request"
  /\ loops[1].request = 2
  /\ Len(calls) = 2
  /\ calls[1].result = "ok"

\* C27: the work of a task that never fails with quota exhaustion is
\* invoked exactly once, and its promise settles exactly once, resolved
\* with the result or rejected with the error of that one invocation
InvokedAndSettledOnce ==
  \A task \in DOMAIN promise :
    (\A k \in CallsOf(task) : ~Quota(calls[k].result)) =>
      /\ Cardinality(CallsOf(task)) <= 1
      /\ CallsOf(task) = {} => promise[task] = Pending
      /\ \A k \in CallsOf(task) :
           promise[task] =
             IF calls[k].result = "running" THEN Pending
             ELSE [state |-> IF calls[k].result = "ok" THEN "resolved"
                             ELSE "rejected",
                   value |-> calls[k].result, n |-> 1]

\* three tasks done in turn: resolved, rejected with its own network error,
\* resolved
InvokedAndSettledOnceWitness ==
  /\ Len(calls) = 3
  /\ \A k \in 1..3 : calls[k].task = k
  /\ calls[1].result = "ok"
  /\ calls[2].result = "network"
  /\ calls[3].result = "ok"
  /\ promise[1].state = "resolved"
  /\ promise[2] = [state |-> "rejected", value |-> "network", n |-> 1]
  /\ promise[3].state = "resolved"

\* C28: the stored achievements never hold the same id twice, and a call
\* for an id that is already earned or not defined returns null and leaves
\* the stored list as it was
AwardedAtMostOnce ==
  /\ \A j, k \in DOMAIN store.achievements :
       store.achievements[j].id = store.achievements[k].id => j = k
  /\ ret # <<>> =>
       LET last == ret[1]
           held == {last.before[k].id : k \in DOMAIN last.before}
       IN  (last.achievementId \in held
              \/ last.achievementId \notin ACHIEVEMENT_DEFINITIONS)
             => /\ last.returned = <<>>
                /\ store.achievements = last.before

\* a second call for an achievement that was earned first of three
AwardedAtMostOnceWitness ==
  /\ Len(store.achievements) = 3
  /\ ret # <<>>
  /\ ret[1].achievementId = store.achievements[1].id
  /\ ret[1].returned = <<>>
  /\ ret[1].before = store.achievements

\* C29: after any submitScore calls the stored leaderboard holds exactly
\* one entry marked isCurrentUser, with the score submitted last, and its
\* entries are in descending score order with the ranks 1..n
LastScoreWins ==
  ret # <<>> =>
    LET entries == store.leaderboard
        own == {k \in DOMAIN entries : entries[k].isCurrentUser}
    IN  /\ Cardinality(own) = 1
        /\ \A k \in own : entries[k].score = ret[1].score
        /\ \A k \in DOMAIN entries : entries[k].rank = k
        /\ \A j, k \in DOMAIN entries :
             j < k => entries[j].score >= entries[k].score

\* a score of 10 submitted after a score of 30
LastScoreWinsWitness ==
  /\ ret # <<>>
  /\ ret[1].score = 10
  /\ Len(ret[1].before) = 1
  /\ ret[1].before[1].score = 30
  /\ Len(store.leaderboard) = 1
  /\ store.leaderboard[1].score = 10

\* C30: the stored list holds at most one application per id; saving an
\* id that is there replaces its entry in place (a new id goes to the
\* end), deleting an id takes its entry out and leaves the others as they
\* were, and updating the status of an unknown id changes nothing
UniqueApplicationIds ==
  LET apps == store.applications
  IN  /\ \A j, k \in DOMAIN apps : apps[j].id = apps[k].id => j = k
      /\ ret # <<>> =>
           LET last == ret[1]
               at == {k \in DOMAIN last.before : last.before[k].id = last.id}
               given == [id |-> last.id, status |-> last.status,
                         interviewDate |-> last.interviewDate]
           IN  /\ (last.op = "save" /\ at # {}) =>
                    /\ Len(apps) = Len(last.before)
                    /\ \A k \in DOMAIN apps :
                         apps[k] = IF k \in at THEN given ELSE last.before[k]
               /\ (last.op = "save" /\ at = {}) =>
                    apps = last.before \o <<given>>
               /\ last.op = "delete" =>
                    /\ \A k \in DOMAIN apps : apps[k].id # last.id
                    /\ \A p \in at :
                         apps = SubSeq(last.before, 1, p - 1)
                                  \o SubSeq(last.before, p + 1,
                                            Len(last.before))
                    /\ at = {} => apps = last.before
               /\ (last.op = "update" /\ at = {}) => apps = last.before

\* the first of three applications is saved again with another status and
\* stays first
UniqueApplicationIdsWitness ==
  /\ ret # <<>>
  /\ ret[1].op = "save"
  /\ Len(ret[1].before) = 3
  /\ ret[1].before[1].id = ret[1].id
  /\ ret[1].before[1].status = "applied"
  /\ ret[1].status = "interview"
  /\ Len(store.applications) = 3
  /\ store.applications[1].id = ret[1].id
  /\ store.applications[1].status = "interview"

====
